---- MODULE Spec2Model ----
(***************************************************************************)
(* A model of nse_info: the concurrent fetch-and-aggregate pipeline of     *)
(* main.py (fetch_data, fetch_data_helper, get_sectoral_market_cap) and    *)
(* the per-symbol fetch of fetch_nse.py (NseFetch.get_stock_info, is_eq).  *)
(***************************************************************************)
EXTENDS Integers, Sequences, FiniteSets, TLC

\* ------------------------------------------------------------------ bounds
\* Longest symbol universe (rows of the listing file) a run is given.
MaxLen == 3
\* Largest worker count (--num_threads) a run is given.
MaxThreads == 3

\* ------------------------------------------------------------- the inputs
\* None / NaN of the Python code.
Null == "null"

\* The listing file's SYMBOL column; a run reads a prefix of it.  The file
\* is not sorted by the code, so the model does not assume it sorted.
AllCodes == <<"ZZZ", "AAA", "MMM", "BBB", "CCC">>

\* Values of --num_threads (argparse type=int accepts every integer).
NumThreadsChoices == (0 - 2) .. MaxThreads

SeriesChoices == {<< >>, <<"EQ">>, <<"BE">>, <<"BZ">>, <<"SM", "EQ">>}
McapChoices == {50, 100}
SectorChoices == {Null, "Finance", "IT"}

\* The two JSON documents the remote returns for one symbol, reduced to
\* which keys are present and the values the pipeline reads:
\*   depth         data_1 has "marketDeptOrderBook"
\*   tradeInfo     ... ["tradeInfo"]["totalMarketCap"] is there
\*   mcap          its value
\*   info          data_2 has "info"
\*   companyName   data_2["info"] has "companyName"
\*   hasSeries     data_2["info"] has "activeSeries"
\*   series        its value (a list of series codes)
\*   flags         data_2["info"] has isSuspended, isDelisted, isFNOSec
\*   metadata      data_2 has "metadata" with its five fields
\*   securityInfo  data_2 has "securityInfo" with its fields
\*   industryInfo  data_2 has "industryInfo" with its four fields
\*   sector        data_2["industryInfo"]["sector"] (nullable)
Payloads ==
    [depth : BOOLEAN, tradeInfo : BOOLEAN, mcap : McapChoices,
     info : BOOLEAN, companyName : BOOLEAN, hasSeries : BOOLEAN,
     series : SeriesChoices, flags : BOOLEAN, metadata : BOOLEAN,
     securityInfo : BOOLEAN, industryInfo : BOOLEAN, sector : SectorChoices]

\* A complete payload with the given series, market cap and sector.
Complete(ser, m, sec) ==
    [depth |-> TRUE, tradeInfo |-> TRUE, mcap |-> m, info |-> TRUE,
     companyName |-> TRUE, hasSeries |-> TRUE, series |-> ser,
     flags |-> TRUE, metadata |-> TRUE, securityInfo |-> TRUE,
     industryInfo |-> TRUE, sector |-> sec]

\* The responses the pipeline specification draws from: one of each kind
\* of outcome, with ties in market cap, two sectors and a null sector.
PipelinePayloads ==
    { Complete(<<"EQ">>, 50, "Finance"),
      Complete(<<"BE">>, 50, Null),
      Complete(<<"EQ">>, 100, "Finance"),
      Complete(<<"EQ">>, 100, "IT"),
      Complete(<<"BZ">>, 100, "IT"),
      Complete(<<"SM", "EQ">>, 50, "Finance"),
      [Complete(<<"EQ">>, 50, "IT") EXCEPT !.depth = FALSE],
      [Complete(<<"EQ">>, 50, "IT") EXCEPT !.tradeInfo = FALSE] }

NoResp == [depth |-> FALSE, tradeInfo |-> FALSE, mcap |-> 0, info |-> FALSE,
           companyName |-> FALSE, hasSeries |-> FALSE, series |-> << >>,
           flags |-> FALSE, metadata |-> FALSE, securityInfo |-> FALSE,
           industryInfo |-> FALSE, sector |-> Null]

\* ------------------------------------------------------------------ state
VARIABLES
    pc,              \* where main / fetch_data is
    status_code,     \* the handshake's response.status_code (0: not yet)
    error,           \* the exception that ended the run, or "none"
    num_threads,     \* args.num_threads
    all_stock_codes, \* get_list_of_codes()
    stocks_splits,   \* the partitions built by fetch_data
    workers,         \* the submitted fetch_data_helper tasks, by index
    first_done,      \* index of the task that ended first (0: none yet)
    merged,          \* how many futures the merge loop has consumed
    comb_df,         \* the merged collection (list of frames, then frame)
    csv,             \* the flat output file: whether written, and its rows
    res,             \* get_sectoral_market_cap: sector -> total
    sectoral_data,   \* get_sectoral_market_cap: sector -> member list
    resp,            \* symbol -> the payload the remote answered with
    nfetch,          \* symbol -> number of get_stock_info calls made
    probe,           \* a payload handed to get_stock_info on its own
    probeOut         \* what get_stock_info made of it

vars == <<pc, status_code, error, num_threads, all_stock_codes, stocks_splits, workers,
          first_done, merged, comb_df, csv, res, sectoral_data, resp, nfetch,
          probe, probeOut>>

Symbols == {AllCodes[i] : i \in 1 .. Len(AllCodes)}

\* ------------------------------------------------- fetch_nse.py: NseFetch
\* A variant of is_eq that looks for the code anywhere in the list.
is_eq_anywhere(series) ==
    \E i \in 1 .. Len(series) : series[i] \in {"EQ", "BE"}

is_eq(series) == series[1] \in {"EQ", "BE"}

Stock(symbol, p) ==
    [comp_symbol |-> symbol,
     total_market_cap_in_cr |-> p.mcap,
     is_equity |-> TRUE,
     industry_info_sector |-> p.sector]

NoStock == [comp_symbol |-> Null, total_market_cap_in_cr |-> 0,
            is_equity |-> FALSE, industry_info_sector |-> Null]

Raise(exc) == [exc |-> exc, status |-> FALSE, stock |-> NoStock]
Return(status, stock) == [exc |-> "none", status |-> status, stock |-> stock]

\* get_stock_info, statement by statement: what it returns or raises.
get_stock_info(symbol, p) ==
    IF ~p.depth THEN Raise("RuntimeError")
    ELSE IF ~p.info THEN Raise("RuntimeError")
    ELSE IF ~p.tradeInfo THEN Raise("KeyError")
    ELSE IF ~p.companyName THEN Raise("KeyError")
    ELSE IF ~p.hasSeries THEN Raise("KeyError")
    ELSE IF p.series = << >> THEN Raise("IndexError")
    ELSE IF ~is_eq(p.series) THEN Return(FALSE, NoStock)
    ELSE IF ~p.flags THEN Raise("KeyError")
    ELSE IF ~p.metadata THEN Raise("KeyError")
    ELSE IF ~p.securityInfo THEN Raise("KeyError")
    ELSE IF ~p.industryInfo THEN Raise("KeyError")
    ELSE Return(TRUE, Stock(symbol, p))

\* --------------------------------------------------- main.py: fetch_data
Min(a, b) == IF a < b THEN a ELSE b

\* Python's s[a:b] for 0 <= a <= b (0-based, b exclusive, clamped to len).
PySlice(s, a, b) == SubSeq(s, a + 1, Min(b, Len(s)))

\* The partitioning loop: num_threads slices of len // num_threads each.
StocksSplits(codes, n) ==
    LET stocks_per_thread == Len(codes) \div n
    IN  [thread_idx \in 1 .. n |->
            PySlice(codes, (thread_idx - 1) * stocks_per_thread,
                    thread_idx * stocks_per_thread)]

\* A variant of the helper with no except clause.
CaughtNothing(exc) == FALSE

\* The except clause of fetch_data_helper.
CaughtByHelper(exc) == exc = "RuntimeError"

\* A variant of the merge that reads a future without waiting for it.
FutureDoneNoWait(w) == TRUE

\* e.result() returns (or re-raises) only once the task has ended.
FutureDone(w) == workers[w].state \in {"done", "raised"}

\* A variant of the merge that assigns instead of extending.
ExtendOverwrite(comb, r) == r

\* A variant of the merge that puts each result in front.
ExtendInFront(comb, r) == r \o comb

\* comb_df.extend(e.result())
Extend(comb, r) == comb \o r

Running(w) == workers[w].state = "running"
\* A task has ended when it returned or raised; one inside a call that
\* never answers has not.
AllWorkersEnded ==
    \A w \in DOMAIN workers : workers[w].state \in {"done", "raised"}

\* A variant of sort_values that leaves the frame as it is.
sort_values_skipped(df) == {df}

\* A variant of sort_values with ascending=True.
sort_values_ascending(df) ==
    {g \in {[i \in 1 .. Len(df) |-> df[f[i]]] :
                f \in {h \in [1 .. Len(df) -> 1 .. Len(df)] :
                          \A i, j \in 1 .. Len(df) : h[i] = h[j] => i = j}} :
        \A i \in 1 .. Len(g) - 1 :
            g[i].total_market_cap_in_cr <= g[i + 1].total_market_cap_in_cr}

\* DataFrame.sort_values(by="total_market_cap_in_cr", ascending=False) with
\* the default kind="quicksort", which is not stable: every ordering of
\* the rows that is non-increasing in market cap is a possible result.
Injective(f) == \A i, j \in DOMAIN f : f[i] = f[j] => i = j
Orderings(n) == {f \in [1 .. n -> 1 .. n] : Injective(f)}
Descending(df) ==
    \A i \in 1 .. Len(df) - 1 :
        df[i].total_market_cap_in_cr >= df[i + 1].total_market_cap_in_cr
sort_values(df) ==
    {g \in {[i \in 1 .. Len(df) |-> df[f[i]]] : f \in Orderings(Len(df))} :
        Descending(g)}

\* A variant of the constructor that does not look at the status.
StatusUnchecked(code) == TRUE

\* The constructor goes on only if response.status_code is 200.
StatusOk(code) == code = 200

\* NseFetch(): the handshake request answers 200 or it does not.
Bootstrap ==
    /\ pc = "NseFetch"
    /\ \E code \in {200, 503} :
          /\ status_code' = code
          /\ IF StatusOk(code) THEN pc' = "get_list_of_codes" /\ error' = error
             ELSE pc' = "aborted" /\ error' = "RuntimeError"
    /\ UNCHANGED <<num_threads, all_stock_codes, stocks_splits, workers,
                   first_done, merged, comb_df, csv, res, sectoral_data, resp,
                   nfetch, probe, probeOut>>

\* get_list_of_codes(): the listing file is read, or the read fails.
GetListOfCodes ==
    /\ pc = "get_list_of_codes"
    /\ \/ /\ \E L \in 0 .. MaxLen : all_stock_codes' = SubSeq(AllCodes, 1, L)
          /\ pc' = "partition"
          /\ error' = error
       \/ /\ pc' = "aborted"
          /\ error' = "URLError"
          /\ UNCHANGED all_stock_codes
    /\ UNCHANGED <<status_code, num_threads, stocks_splits, workers, first_done, merged,
                   comb_df, csv, res, sectoral_data, resp, nfetch, probe,
                   probeOut>>

\* Lines 97-103.  len // 0 raises; range(n) is empty for n < 0.
Partition ==
    /\ pc = "partition"
    /\ IF num_threads = 0
       THEN pc' = "aborted" /\ error' = "ZeroDivisionError"
            /\ UNCHANGED stocks_splits
       ELSE /\ stocks_splits' = IF num_threads > 0
                                THEN StocksSplits(all_stock_codes, num_threads)
                                ELSE << >>
            /\ pc' = "executor"
            /\ error' = error
    /\ UNCHANGED <<status_code, num_threads, all_stock_codes, workers, first_done, merged,
                   comb_df, csv, res, sectoral_data, resp, nfetch, probe,
                   probeOut>>

\* A variant of the executor that rejects only max_workers = 0.
MaxWorkersRejectedZero(n) == n = 0

\* ThreadPoolExecutor(max_workers=n) raises ValueError for n <= 0.
MaxWorkersRejected(n) == n <= 0

\* ThreadPoolExecutor(max_workers=num_threads) rejects max_workers <= 0.
CreateExecutor ==
    /\ pc = "executor"
    /\ IF MaxWorkersRejected(num_threads)
       THEN pc' = "aborted" /\ error' = "ValueError"
       ELSE pc' = "submit" /\ error' = error
    /\ UNCHANGED <<status_code, num_threads, all_stock_codes, stocks_splits, workers,
                   first_done, merged, comb_df, csv, res, sectoral_data, resp,
                   nfetch, probe, probeOut>>

\* executor.submit(fetch_data_helper, nse, stock_split), one split at a
\* time; the task starts on a pool thread of its own (res = []).
Submit ==
    /\ pc = "submit"
    /\ workers' = Append(workers, [state |-> "running", idx |-> 1, res |-> << >>])
    /\ pc' = IF Len(workers) + 1 = Len(stocks_splits) THEN "merge" ELSE "submit"
    /\ UNCHANGED <<status_code, error, num_threads, all_stock_codes, stocks_splits,
                   first_done, merged, comb_df, csv, res, sectoral_data, resp,
                   nfetch, probe, probeOut>>

\* A variant in which every task iterates the first split.
StockCodeOfFirstSplit(w) == stocks_splits[1][workers[w].idx]

\* for stock_code in stock_codes: the symbol task w is at.
StockCode(w) == stocks_splits[w][workers[w].idx]

\* One iteration of fetch_data_helper's loop in task w: the remote answers
\* with some payload p, and the outcome is handled.
FetchStep(w) ==
    /\ Running(w)
    /\ workers[w].idx <= Len(stocks_splits[w])
    /\ LET stock_code == StockCode(w)
       IN  \E p \in PipelinePayloads :
             LET out == get_stock_info(stock_code, p)
             IN  /\ resp' = [resp EXCEPT ![stock_code] = p]
                 /\ nfetch' = [nfetch EXCEPT ![stock_code] = @ + 1]
                 /\ IF out.exc # "none" /\ ~CaughtByHelper(out.exc)
                    THEN /\ workers' = [workers EXCEPT ![w].state = "raised"]
                         /\ first_done' = IF first_done = 0 THEN w ELSE first_done
                    ELSE /\ workers' =
                              [workers EXCEPT
                                 ![w].idx = @ + 1,
                                 ![w].res = IF out.exc = "none" /\ out.status
                                            THEN Append(@, out.stock)
                                            ELSE @]
                         /\ first_done' = first_done
    /\ UNCHANGED <<status_code, pc, error, num_threads, all_stock_codes, stocks_splits,
                   merged, comb_df, csv, res, sectoral_data, probe, probeOut>>

\* The loop is over: return res.
WorkerReturn(w) ==
    /\ Running(w)
    /\ workers[w].idx > Len(stocks_splits[w])
    /\ workers' = [workers EXCEPT ![w].state = "done"]
    /\ first_done' = IF first_done = 0 THEN w ELSE first_done
    /\ UNCHANGED <<status_code, pc, error, num_threads, all_stock_codes, stocks_splits,
                   merged, comb_df, csv, res, sectoral_data, resp, nfetch,
                   probe, probeOut>>

\* for e in exec: comb_df.extend(e.result()) -- one future per step, in
\* submission order; a task's exception is re-raised by e.result().
MergeResult ==
    /\ pc = "merge"
    /\ merged < Len(workers)
    /\ FutureDone(merged + 1)
    /\ IF workers[merged + 1].state = "raised"
       THEN /\ pc' = "unwind"
            /\ error' = "TaskError"
            /\ UNCHANGED <<merged, comb_df>>
       ELSE /\ comb_df' = Extend(comb_df, workers[merged + 1].res)
            /\ merged' = merged + 1
            /\ pc' = IF merged + 1 = Len(workers) THEN "concat" ELSE "merge"
            /\ error' = error
    /\ UNCHANGED <<status_code, num_threads, all_stock_codes, stocks_splits, workers,
                   first_done, csv, res, sectoral_data, resp, nfetch, probe,
                   probeOut>>

\* An exception leaving the with block: executor.__exit__ is
\* shutdown(wait=True), which returns once every task has ended.
Unwind ==
    /\ pc = "unwind"
    /\ AllWorkersEnded
    /\ pc' = "aborted"
    /\ UNCHANGED <<status_code, error, num_threads, all_stock_codes, stocks_splits,
                   workers, first_done, merged, comb_df, csv, res,
                   sectoral_data, resp, nfetch, probe, probeOut>>

\* A variant of pd.concat that makes an empty frame of an empty list.
ConcatAcceptsEmpty(frames) == FALSE

\* pd.concat(frames): "No objects to concatenate" for an empty list.
ConcatRaises(frames) == frames = << >>

\* pd.concat(comb_df) raises ValueError on an empty list; then the with
\* block is left (every task has ended: each result was collected).
Concat ==
    /\ pc = "concat"
    /\ IF ConcatRaises(comb_df)
       THEN pc' = "unwind" /\ error' = "ValueError"
       ELSE pc' = "sort_values" /\ error' = error
    /\ UNCHANGED <<status_code, num_threads, all_stock_codes, stocks_splits, workers,
                   first_done, merged, comb_df, csv, res, sectoral_data, resp,
                   nfetch, probe, probeOut>>

\* Line 120.
SortValues ==
    /\ pc = "sort_values"
    /\ comb_df' \in sort_values(comb_df)
    /\ pc' = "to_csv"
    /\ UNCHANGED <<status_code, error, num_threads, all_stock_codes, stocks_splits,
                   workers, first_done, merged, csv, res, sectoral_data, resp,
                   nfetch, probe, probeOut>>

\* Line 121 and the return of fetch_data.
ToCsv ==
    /\ pc = "to_csv"
    /\ csv' = [written |-> TRUE, rows |-> comb_df]
    /\ pc' = "get_sectoral_market_cap"
    /\ UNCHANGED <<status_code, error, num_threads, all_stock_codes, stocks_splits,
                   workers, first_done, merged, comb_df, res, sectoral_data,
                   resp, nfetch, probe, probeOut>>

\* ------------------------------------- main.py: get_sectoral_market_cap
RECURSIVE SumMcap(_)
\* Series.sum() of the market-cap column.
SumMcap(df) ==
    IF df = << >> THEN 0
    ELSE df[1].total_market_cap_in_cr + SumMcap(Tail(df))

HasSector(r) == r.industry_info_sector # Null

\* A variant that fills the missing sector in instead of dropping the row.
fillna(df) ==
    [i \in 1 .. Len(df) |->
        IF HasSector(df[i]) THEN df[i]
        ELSE [df[i] EXCEPT !.industry_info_sector = "Unknown"]]

\* df.dropna(subset=["industry_info_sector"])
dropna(df) == SelectSeq(df, HasSector)

\* A variant of the grouping that puts every row in every group.
GroupRowsAll(df, sector) == df

\* The rows groupby puts in the group of one key.
GroupRows(df, sector) ==
    SelectSeq(df, LAMBDA r : r.industry_info_sector = sector)

\* groupby("industry_info_sector"): one group per non-null key.
GroupKeys(df) == {df[i].industry_info_sector : i \in 1 .. Len(df)} \ {Null}

\* df.groupby("industry_info_sector").sum(), read into the dict res.
GroupBySum(df) == [sector \in GroupKeys(df) |-> SumMcap(GroupRows(df, sector))]

\* df[df["industry_info_sector"] == sector], the two columns renamed,
\* to_dict(orient="records").
FilteredRecords(df, sector) ==
    LET filtered_df == SelectSeq(df, LAMBDA r : r.industry_info_sector = sector)
    IN  [i \in 1 .. Len(filtered_df) |->
            [Company_Symbol |-> filtered_df[i].comp_symbol,
             Market_Cap |-> filtered_df[i].total_market_cap_in_cr]]

\* The whole of get_sectoral_market_cap(res_df, output_dir), as main calls
\* it with the frame fetch_data returned.
GetSectoralMarketCap ==
    /\ pc = "get_sectoral_market_cap"
    /\ \E sorted \in sort_values(comb_df) :
          LET df == dropna(sorted)
              totals == GroupBySum(df)
          IN  /\ res' = totals
              /\ sectoral_data' =
                    [sector \in DOMAIN totals |-> FilteredRecords(df, sector)]
    /\ pc' = "done"
    /\ UNCHANGED <<status_code, error, num_threads, all_stock_codes, stocks_splits,
                   workers, first_done, merged, comb_df, csv, resp, nfetch,
                   probe, probeOut>>

\* ------------------------------------------------------ specifications
NoOut == Raise("unset")

Init ==
    /\ pc = "NseFetch"
    /\ status_code = 0
    /\ error = "none"
    /\ num_threads \in NumThreadsChoices
    /\ all_stock_codes = << >>
    /\ stocks_splits = << >>
    /\ workers = << >>
    /\ first_done = 0
    /\ merged = 0
    /\ comb_df = << >>
    /\ csv = [written |-> FALSE, rows |-> << >>]
    /\ res = << >>
    /\ sectoral_data = << >>
    /\ resp = [s \in Symbols |-> NoResp]
    /\ nfetch = [s \in Symbols |-> 0]
    /\ probe = NoResp
    /\ probeOut = NoOut

Next ==
    \/ Bootstrap
    \/ GetListOfCodes
    \/ Partition
    \/ CreateExecutor
    \/ Submit
    \/ \E w \in DOMAIN workers : FetchStep(w)
    \/ \E w \in DOMAIN workers : WorkerReturn(w)
    \/ MergeResult
    \/ Unwind
    \/ Concat
    \/ SortValues
    \/ ToCsv
    \/ GetSectoralMarketCap

Spec == Init /\ [][Next]_vars

\* get_stock_info on its own, over every payload of Payloads.
InitFetch ==
    /\ pc = "get_stock_info"
    /\ status_code = 200
    /\ error = "none"
    /\ num_threads = 1
    /\ all_stock_codes = << >>
    /\ stocks_splits = << >>
    /\ workers = << >>
    /\ first_done = 0
    /\ merged = 0
    /\ comb_df = << >>
    /\ csv = [written |-> FALSE, rows |-> << >>]
    /\ res = << >>
    /\ sectoral_data = << >>
    /\ resp = [s \in Symbols |-> NoResp]
    /\ nfetch = [s \in Symbols |-> 0]
    /\ probe \in Payloads
    /\ probeOut = NoOut

CallGetStockInfo ==
    /\ pc = "get_stock_info"
    /\ probeOut' = get_stock_info(AllCodes[1], probe)
    /\ pc' = "returned"
    /\ UNCHANGED <<status_code, error, num_threads, all_stock_codes, stocks_splits,
                   workers, first_done, merged, comb_df, csv, res,
                   sectoral_data, resp, nfetch, probe>>

NextFetch == CallGetStockInfo

SpecFetch == InitFetch /\ [][NextFetch]_vars

\* ------------------------------------------- specifications for C11, C17
\* session.get(url, headers=...) is called with no timeout: when the remote
\* never answers, the call never returns and task w stays inside it.
FetchHang(w) ==
    /\ Running(w)
    /\ workers[w].idx <= Len(stocks_splits[w])
    /\ workers' = [workers EXCEPT ![w].state = "blocked"]
    /\ UNCHANGED <<pc, status_code, error, num_threads, all_stock_codes,
                   stocks_splits, first_done, merged, comb_df, csv, res,
                   sectoral_data, resp, nfetch, probe, probeOut>>

\* The run with the calls that never answer, and with the scheduling the
\* threads have: a step that can be taken is taken in the end.
NextLive ==
    \/ Next
    \/ \E w \in DOMAIN workers : FetchHang(w)

SpecLive == Init /\ [][NextLive]_vars /\ WF_vars(NextLive)

\* The frames get_sectoral_market_cap can be handed: one row per symbol
\* of a prefix of AllCodes, in that order, any market cap and sector.
Frames ==
    UNION {
        {[i \in 1 .. L |->
             [comp_symbol |-> AllCodes[i],
              total_market_cap_in_cr |-> m[i],
              is_equity |-> TRUE,
              industry_info_sector |-> sec[i]]] :
            m \in [1 .. L -> McapChoices], sec \in [1 .. L -> SectorChoices]} :
        L \in 0 .. MaxLen}

\* get_sectoral_market_cap on its own, over every frame of Frames.
InitRollup ==
    /\ pc = "get_sectoral_market_cap"
    /\ status_code = 200
    /\ error = "none"
    /\ num_threads = 1
    /\ all_stock_codes = << >>
    /\ stocks_splits = << >>
    /\ workers = << >>
    /\ first_done = 0
    /\ merged = 0
    /\ comb_df \in Frames
    /\ csv = [written |-> FALSE, rows |-> << >>]
    /\ res = << >>
    /\ sectoral_data = << >>
    /\ resp = [s \in Symbols |-> NoResp]
    /\ nfetch = [s \in Symbols |-> 0]
    /\ probe = NoResp
    /\ probeOut = NoOut

NextRollup == GetSectoralMarketCap

SpecRollup == InitRollup /\ [][NextRollup]_vars

\* ================================================================ claims
\* What the claims talk about, stated on the responses themselves and
\* not through get_stock_info.
Fetched(s) == nfetch[s] > 0
BothBlocks(p) == p.depth /\ p.info
MissingBlock(p) == ~p.depth \/ ~p.info
AllFields(p) ==
    /\ p.tradeInfo /\ p.companyName /\ p.hasSeries /\ p.flags
    /\ p.metadata /\ p.securityInfo /\ p.industryInfo
MissingField(p) == BothBlocks(p) /\ ~AllFields(p)
FirstSeriesIn(p, codes) ==
    p.hasSeries /\ p.series # << >> /\ p.series[1] \in codes
EquityClass(p) == FirstSeriesIn(p, {"EQ", "BE"})
NonEquity(p) == p.hasSeries /\ p.series # << >> /\ ~EquityClass(p)
SuccessResp(p) == BothBlocks(p) /\ AllFields(p) /\ EquityClass(p)

SymbolsOf(df) == {df[i].comp_symbol : i \in 1 .. Len(df)}
Count(df, s) == Cardinality({i \in 1 .. Len(df) : df[i].comp_symbol = s})

RECURSIVE Flatten(_)
Flatten(splits) ==
    IF Len(splits) = 0 THEN << >>
    ELSE splits[1] \o Flatten(SubSeq(splits, 2, Len(splits)))

\* C1: for every universe of length L and every worker count N >= 1, the
\* partitioning step leaves exactly N slices whose concatenation in
\* partition order is the original sequence.
C1_PartitionReconstructsUniverse ==
    (pc = "executor" /\ num_threads >= 1) =>
        /\ Len(stocks_splits) = num_threads
        /\ Flatten(stocks_splits) = all_stock_codes

\* C2: a symbol whose two blocks are present but which lacks an expected
\* field is a per-symbol failure: its worker does not end with an
\* exception, it has gone on past the symbol, and the run is not ended by
\* a task's exception.
C2_MissingFieldIsSkipped ==
    \A w \in DOMAIN workers :
        \A i \in 1 .. Len(stocks_splits[w]) :
            LET s == stocks_splits[w][i]
            IN  (Fetched(s) /\ MissingField(resp[s])) =>
                    /\ workers[w].state # "raised"
                    /\ workers[w].idx > i
                    /\ error # "TaskError"

\* C3: the steps that follow the merge (sorting, writing the flat output,
\* the sector rollup) are never at hand, and the output is never written,
\* while a worker task is still running or not yet submitted.
C3_JoinBarrier ==
    (\/ pc \in {"sort_values", "to_csv", "get_sectoral_market_cap", "done"}
     \/ csv.written
     \/ DOMAIN res # {})
        => /\ Len(workers) = num_threads
           /\ AllWorkersEnded

C3_Witness ==
    /\ pc = "sort_values"
    /\ Len(workers) >= 2
    /\ first_done > 1

\* C4: once every worker has completed and the merge loop has consumed
\* every future, the merged collection holds exactly one entry for each
\* symbol whose fetch was a Success and none for any other symbol.
C4_MergedExactlySuccesses ==
    (num_threads >= 1 /\ merged = num_threads) =>
        /\ \A w \in DOMAIN workers : workers[w].state = "done"
        /\ \A s \in Symbols :
              Count(comb_df, s) =
                  IF Fetched(s) /\ SuccessResp(resp[s]) THEN 1 ELSE 0

C4_Witness ==
    /\ num_threads >= 2
    /\ merged = num_threads
    /\ first_done > 1
    /\ \E s \in Symbols : Fetched(s) /\ SuccessResp(resp[s])
    /\ \E s \in Symbols : Fetched(s) /\ NonEquity(resp[s])
    /\ \E s \in Symbols : Fetched(s) /\ MissingBlock(resp[s])

\* C5: a symbol whose response lacks the market-depth block or the
\* company-info block is absorbed by its worker: the step that fetches it
\* leaves the worker running, moves it to its next symbol, adds nothing to
\* its results, touches no other worker and does not end the run; the
\* symbol is fetched once, is in no collection, and a task ends with an
\* exception only on a symbol whose two blocks were both present.
C5_StepAbsorbs ==
    \A w \in DOMAIN workers :
        (Running(w) /\ workers[w].idx <= Len(stocks_splits[w])) =>
            LET s == stocks_splits[w][workers[w].idx]
            IN  (nfetch'[s] # nfetch[s] /\ MissingBlock(resp'[s])) =>
                    /\ workers'[w].state = "running"
                    /\ workers'[w].idx = workers[w].idx + 1
                    /\ workers'[w].res = workers[w].res
                    /\ \A v \in DOMAIN workers : v # w => workers'[v] = workers[v]
                    /\ pc' = pc
                    /\ error' = error

C5_Omitted ==
    /\ \A s \in Symbols : nfetch[s] <= 1
    /\ \A s \in Symbols :
          (Fetched(s) /\ MissingBlock(resp[s])) =>
              /\ s \notin SymbolsOf(comb_df)
              /\ s \notin SymbolsOf(csv.rows)
              /\ \A w \in DOMAIN workers : s \notin SymbolsOf(workers[w].res)
    /\ \A w \in DOMAIN workers :
          workers[w].state = "raised" =>
              BothBlocks(resp[stocks_splits[w][workers[w].idx]])

C6_NonEquityIsNotApplicable ==
    (pc = "returned" /\ BothBlocks(probe) /\ probe.tradeInfo /\ NonEquity(probe))
        => (probeOut.exc = "none" /\ ~probeOut.status)

\* C7: a record exists only for a symbol whose first series code is
\* exactly "EQ" or "BE": no worker's results, no merged collection and no
\* written output holds a record of any other symbol.
RecordsAreEquity(df) ==
    \A i \in 1 .. Len(df) :
        /\ Fetched(df[i].comp_symbol)
        /\ EquityClass(resp[df[i].comp_symbol])
        /\ df[i].is_equity

C7_RecordsOnlyForEquity ==
    /\ RecordsAreEquity(comb_df)
    /\ RecordsAreEquity(csv.rows)
    /\ \A w \in DOMAIN workers : RecordsAreEquity(workers[w].res)

C7_Witness ==
    /\ pc = "done"
    /\ comb_df # << >>
    /\ \E s \in Symbols : Fetched(s) /\ resp[s].series = <<"SM", "EQ">>
    /\ \E s \in Symbols : Fetched(s) /\ resp[s].series = <<"BZ">>

\* Ascending lexicographic order of the symbols of AllCodes.
SymbolOrder == <<"AAA", "BBB", "CCC", "MMM", "ZZZ">>
Rank(s) == CHOOSE i \in 1 .. Len(SymbolOrder) : SymbolOrder[i] = s
SymbolLess(a, b) == Rank(a) < Rank(b)

\* C8: the ranked list fetch_data returns is the record collection sorted
\* by market cap descending, records of equal market cap in ascending
\* lexicographic order of symbol.
C8_RankedTiesBySymbol ==
    pc \in {"get_sectoral_market_cap", "done"} =>
        \A i, j \in 1 .. Len(comb_df) :
            i < j =>
                \/ comb_df[i].total_market_cap_in_cr > comb_df[j].total_market_cap_in_cr
                \/ /\ comb_df[i].total_market_cap_in_cr = comb_df[j].total_market_cap_in_cr
                   /\ SymbolLess(comb_df[i].comp_symbol, comb_df[j].comp_symbol)

\* The sum of the market caps of the rows of df whose sector is in keys,
\* counted row by row.
RECURSIVE McapWhere(_, _, _)
McapWhere(df, keys, n) ==
    IF n = 0 THEN 0
    ELSE McapWhere(df, keys, n - 1)
         + (IF df[n].industry_info_sector \in keys
            THEN df[n].total_market_cap_in_cr ELSE 0)

RECURSIVE TotalOf(_, _)
TotalOf(f, keys) ==
    IF keys = {} THEN 0
    ELSE LET k == CHOOSE x \in keys : TRUE
         IN  f[k] + TotalOf(f, keys \ {k})

SectorsOf(df) == {df[i].industry_info_sector : i \in 1 .. Len(df)}

\* C9: each sector total is the sum of the market caps of exactly the
\* records of that sector, a sector is a key exactly when some record has
\* it, and the totals add up to the market cap of the records that have a
\* sector.
C9_SectorTotals ==
    pc = "done" =>
        /\ DOMAIN res = SectorsOf(comb_df) \ {Null}
        /\ \A k \in DOMAIN res : res[k] = McapWhere(comb_df, {k}, Len(comb_df))
        /\ TotalOf(res, DOMAIN res)
              = McapWhere(comb_df, SectorsOf(comb_df) \ {Null}, Len(comb_df))

C9_Witness ==
    /\ pc = "done"
    /\ \E k \in DOMAIN res : res[k] = 150
    /\ Cardinality(SectorsOf(comb_df)) = 2

MembersOf(members) == {members[i].Company_Symbol : i \in 1 .. Len(members)}

\* C10: a record with a null sector is under no key of either mapping
\* and in no member list, the totals leave its market cap out, and it is
\* in the ranked list and the written output all the same.
C10_NullSectorExcluded ==
    pc = "done" =>
        /\ Null \notin DOMAIN res
        /\ DOMAIN sectoral_data = DOMAIN res
        /\ \A s \in Symbols :
              (Fetched(s) /\ SuccessResp(resp[s]) /\ resp[s].sector = Null) =>
                  /\ Count(comb_df, s) = 1
                  /\ Count(csv.rows, s) = 1
                  /\ \A k \in DOMAIN sectoral_data :
                        s \notin MembersOf(sectoral_data[k])
        /\ TotalOf(res, DOMAIN res) + McapWhere(comb_df, {Null}, Len(comb_df))
              = McapWhere(comb_df, SectorsOf(comb_df), Len(comb_df))

C10_Witness ==
    /\ pc = "done"
    /\ DOMAIN res # {}
    /\ \E i \in 1 .. Len(comb_df) : comb_df[i].industry_info_sector = Null

\* C11: a network call that does not answer cannot stall a worker for
\* ever: once the tasks are submitted, every one of them ends (returns,
\* or ends with an exception) in the end.
C11_EveryWorkerCompletes ==
    (num_threads >= 1 /\ Len(workers) = num_threads) ~> AllWorkersEnded

NothingFetched == \A s \in Symbols : nfetch[s] = 0

\* C12: unless the handshake answered 200, nothing is started: no listing
\* is read, no split is built, no task is submitted, no symbol is fetched
\* and nothing is written; a handshake that answered anything else has
\* ended the run.
C12_BootstrapFirst ==
    /\ status_code # 200 =>
          /\ pc \in {"NseFetch", "aborted"}
          /\ all_stock_codes = << >>
          /\ stocks_splits = << >>
          /\ workers = << >>
          /\ NothingFetched
          /\ ~csv.written
    /\ status_code \notin {0, 200} => (pc = "aborted" /\ error = "RuntimeError")

C12_Witness == status_code = 503 /\ pc = "aborted"

\* C13: with a worker count of 0 or less the run never gets past the
\* creation of the executor (for 0, not past the partitioning): no task
\* is submitted, no symbol fetched, nothing merged, aggregated or written,
\* and once the executor is reached the run has ended with an error.
C13_InvalidWorkerCount ==
    num_threads <= 0 =>
        /\ pc \in {"NseFetch", "get_list_of_codes", "partition", "executor",
                   "aborted"}
        /\ (num_threads = 0 => pc # "executor")
        /\ (pc = "aborted" => error # "none")
        /\ workers = << >>
        /\ NothingFetched
        /\ comb_df = << >>
        /\ DOMAIN res = {}
        /\ ~csv.written

C13_Witness ==
    /\ num_threads < 0
    /\ status_code = 200
    /\ all_stock_codes # << >>
    /\ pc = "aborted"
    /\ error = "ValueError"

RECURSIVE ResultsUpTo(_)
\* The workers' local result lists, concatenated by index up to n.
ResultsUpTo(n) ==
    IF n = 0 THEN << >> ELSE ResultsUpTo(n - 1) \o workers[n].res

RowSet(df) == {df[i] : i \in 1 .. Len(df)}

\* C14: the flat output is written only once every worker has returned
\* and every result is merged and sorted: it holds every merged row once,
\* in non-increasing market-cap order; a run that has ended with an error
\* has written nothing.
C14_NoPartialOutput ==
    /\ csv.written =>
          /\ num_threads >= 1
          /\ merged = num_threads
          /\ \A w \in DOMAIN workers : workers[w].state = "done"
          /\ Len(csv.rows) = Len(ResultsUpTo(Len(workers)))
          /\ RowSet(csv.rows) = RowSet(ResultsUpTo(Len(workers)))
          /\ \A i \in 1 .. Len(csv.rows) - 1 :
                csv.rows[i].total_market_cap_in_cr
                    >= csv.rows[i + 1].total_market_cap_in_cr
    /\ (error # "none" \/ pc \in {"unwind", "aborted"}) => ~csv.written

C14_Witness ==
    /\ csv.written
    /\ num_threads >= 2
    /\ Len(csv.rows) >= 2
    /\ csv.rows[1].total_market_cap_in_cr > csv.rows[2].total_market_cap_in_cr
    /\ csv.rows[1].comp_symbol # all_stock_codes[1]

\* C15: get_stock_info never raises past its boundary for a malformed but
\* parseable pair of responses.  Stated with the documented RuntimeError
\* counted as the Failed outcome: it returns, or raises RuntimeError.
C15_NeverRaises ==
    pc = "returned" => probeOut.exc \in {"none", "RuntimeError"}

RECURSIVE SuccessesOf(_)
\* The records of the symbols of codes that answered with a Success, in
\* the order of codes, read off the responses.
SuccessesOf(codes) ==
    IF codes = << >> THEN << >>
    ELSE (IF Fetched(codes[1]) /\ SuccessResp(resp[codes[1]])
          THEN <<[comp_symbol |-> codes[1],
                  total_market_cap_in_cr |-> resp[codes[1]].mcap,
                  is_equity |-> TRUE,
                  industry_info_sector |-> resp[codes[1]].sector]>>
          ELSE << >>)
         \o SuccessesOf(Tail(codes))

\* C16: for N >= 1 there are N tasks, one per split; task w fetches the
\* symbols of split w and of no other, one after the other in the split's
\* order, each once, and its local list holds the Success records of the
\* symbols it has been through, in that order.
C16_OneTaskPerPartition ==
    /\ Len(workers) <= Len(stocks_splits)
    /\ pc \in {"merge", "unwind", "concat", "sort_values", "to_csv",
               "get_sectoral_market_cap", "done"}
          => (Len(workers) = num_threads /\ Len(stocks_splits) = num_threads)
    /\ \A s \in Symbols : nfetch[s] <= 1
    /\ \A s \in Symbols :
          Fetched(s) =>
              \E w \in DOMAIN workers :
                  \E i \in 1 .. Len(stocks_splits[w]) : stocks_splits[w][i] = s
    /\ \A w \in DOMAIN workers :
          /\ workers[w].idx \in 1 .. Len(stocks_splits[w]) + 1
          /\ \A i \in 1 .. Len(stocks_splits[w]) :
                Fetched(stocks_splits[w][i]) <=>
                    \/ i < workers[w].idx
                    \/ i = workers[w].idx /\ workers[w].state = "raised"
          /\ workers[w].res =
                SuccessesOf(SubSeq(stocks_splits[w], 1, workers[w].idx - 1))

C16_Witness ==
    /\ pc = "done"
    /\ Len(all_stock_codes) > num_threads
    /\ \E w \in DOMAIN workers :
          /\ Len(stocks_splits[w]) >= 3
          /\ Len(workers[w].res) = 2
          /\ workers[w].res[1].comp_symbol = stocks_splits[w][1]
          /\ workers[w].res[2].comp_symbol = stocks_splits[w][3]

RECURSIVE MembersInOrder(_, _, _)
\* The (symbol, market cap) pairs of the rows of df of one sector, in the
\* order the rows have in df.
MembersInOrder(df, sector, n) ==
    IF n = 0 THEN << >>
    ELSE MembersInOrder(df, sector, n - 1)
         \o (IF df[n].industry_info_sector = sector
             THEN <<[Company_Symbol |-> df[n].comp_symbol,
                     Market_Cap |-> df[n].total_market_cap_in_cr]>>
             ELSE << >>)

Position(df, symbol) == CHOOSE i \in 1 .. Len(df) : df[i].comp_symbol = symbol

C18_MergeInPartitionOrder ==
    pc \in {"submit", "merge", "unwind", "concat", "sort_values"} =>
        /\ comb_df = ResultsUpTo(merged)
        /\ comb_df = SuccessesOf(Flatten(SubSeq(stocks_splits, 1, merged)))

C18_Witness ==
    /\ pc = "concat"
    /\ first_done > 1
    /\ Len(comb_df) >= 2
    /\ comb_df[1].comp_symbol = all_stock_codes[1]

\* C19: when every future is consumed and no symbol was a Success, the
\* run ends with pd.concat's error: every worker has returned, nothing is
\* sorted, written or aggregated, and no later step is ever at hand with
\* an empty collection.
C19_NothingToConcatenate ==
    /\ (num_threads >= 1 /\ merged = num_threads /\ comb_df = << >>
        /\ pc # "concat") =>
          /\ pc \in {"unwind", "aborted"}
          /\ error = "ValueError"
          /\ \A w \in DOMAIN workers : workers[w].state = "done"
          /\ ~csv.written
          /\ DOMAIN res = {}
    /\ pc \in {"sort_values", "to_csv", "get_sectoral_market_cap", "done"}
          => comb_df # << >>

C19_Witness ==
    /\ pc = "aborted"
    /\ error = "ValueError"
    /\ num_threads >= 1
    /\ \E s \in Symbols : Fetched(s) /\ NonEquity(resp[s])
    /\ \E s \in Symbols : Fetched(s) /\ MissingBlock(resp[s])

====
